---- MODULE Spec2Model ----
(***************************************************************************)
(* SpamCoin (spamcoin.py): a block whose hash is the SHA-256 hex digest of *)
(* the text of its five fields, the genesis block, the proof-of-work nonce *)
(* search of mine_next_block and the chain assembly loop of demo.          *)
(*                                                                         *)
(* Text is modelled as a sequence of one-character strings, so that the    *)
(* undelimited concatenation fed to the digest is what the code feeds it.  *)
(* SHA-256 itself is modelled as a memoised oracle: the first time a text  *)
(* is digested any digest of the explored family may come out, and the     *)
(* same text gives the same digest ever after.                             *)
(***************************************************************************)
EXTENDS Integers, Sequences, FiniteSets, TLC

VARIABLES
    pc,           \* where the run is: "start", "for", "if", "while", "done", "error", "lab"
    height,       \* demo's height argument (--height)
    difficulty,   \* demo's difficulty argument: None or Some(d)
    chain,        \* demo's chain list
    i,            \* number of iterations of demo's for loop completed
    mine,         \* the locals of the running mine_next_block call, with the digest
                  \* computation (sha) made for its block: <<>> or <<frame>>
    oracle,       \* SHA-256 as observed so far: digested text |-> hex digest
    calls,        \* history: calls of mine_next_block made so far
    genesis_calls,\* history: calls of create_genesis_block made so far
    candidates,   \* history: the Blocks constructed by the latest mine_next_block call
    built         \* Blocks constructed directly through Block(...), in order

vars == <<pc, height, difficulty, chain, i, mine, oracle, calls, genesis_calls,
          candidates, built>>

(***************************************************************************)
(* Bounds of the exploration.                                              *)
(***************************************************************************)
MaxHeight == 3       \* largest height argument given to demo
MaxDifficulty == 1   \* largest difficulty argument given to demo
MaxDigested == 4     \* digests computed in a run after which the search is not followed
MaxField == 1        \* largest height and nonce given to Block(...) directly

(***************************************************************************)
(* Python values.                                                          *)
(***************************************************************************)
\* An optional int (click's type=int with default=None): <<>> is None.
None == <<>>
Some(n) == <<n>>

\* `difficulty == 0` in place of `not difficulty`: None is not caught.
NotZeroOnly(d) == IF d = None THEN FALSE ELSE d[1] = 0

\* Python truthiness of an optional int: `not difficulty`.
Not(d) == IF d = None THEN TRUE ELSE d[1] = 0

Digit(k) == <<"0", "1", "2", "3", "4", "5", "6", "7", "8", "9">>[k + 1]

RECURSIVE StrNat(_)
StrNat(n) == IF n < 10 THEN <<Digit(n)>> ELSE StrNat(n \div 10) \o <<Digit(n % 10)>>

\* str(n) of an int: decimal digits, a leading "-" when negative.
Str(n) == IF n < 0 THEN <<"-">> \o StrNat(-n) ELSE StrNat(n)

\* '0' * abs(n): a negative count taken for its size.
ZerosAbs(n) == [k \in 1..(IF n > 0 THEN n ELSE -n) |-> "0"]

\* '0' * n: the empty text when n <= 0.
Zeros(n) == [k \in 1..(IF n > 0 THEN n ELSE 0) |-> "0"]

\* '%0<w>d' % n for n >= 0: the decimal digits, left-padded with zeros to width w.
Pad(n, w) == LET digits == StrNat(n) IN Zeros(w - Len(digits)) \o digits

\* s.startswith(prefix)
StartsWith(s, prefix) ==
    /\ Len(prefix) <= Len(s)
    /\ \A k \in 1..Len(prefix) : s[k] = prefix[k]

(***************************************************************************)
(* datetime: a naive instant, as datetime.datetime.now() returns it.       *)
(***************************************************************************)
\* datetime.isoformat(): YYYY-MM-DDTHH:MM:SS, then .ffffff unless microsecond is 0.
IsoFormat(t) ==
    Pad(t.year, 4) \o <<"-">> \o Pad(t.month, 2) \o <<"-">> \o Pad(t.day, 2)
    \o <<"T">> \o Pad(t.hour, 2) \o <<":">> \o Pad(t.minute, 2)
    \o <<":">> \o Pad(t.second, 2)
    \o (IF t.microsecond = 0 THEN <<>> ELSE <<".">> \o Pad(t.microsecond, 6))

\* datetime.datetime.now(): the instants the clock is explored to return, one on
\* a whole second and one not.
Now ==
    { [year |-> 2018, month |-> 2, day |-> 3, hour |-> 4, minute |-> 5,
       second |-> 6, microsecond |-> us] : us \in {0, 70809} }

\* datetime.datetime.now() called after the instant t0 was read: the clock is
\* explored not to run backwards along a chain (the instants of Now differ in
\* the microsecond alone).
NowAfter(t0) == { t \in Now : t.microsecond >= t0.microsecond }

(***************************************************************************)
(* hashlib.sha256                                                          *)
(***************************************************************************)
\* Length of sha256().hexdigest().
DigestLen == 64

\* A hex digest with exactly k leading "0" characters (all "0" when k = DigestLen).
Digest(k, c) == [n \in 1..DigestLen |-> IF n <= k THEN "0" ELSE c]

\* The family of digests the oracle draws from: one for every number of leading
\* zeros up to the largest difficulty explored short of DigestLen, and the
\* digest that is "0" throughout.
Digests == { Digest(k, "a") : k \in 0..MaxDifficulty } \cup { Digest(DigestLen, "0") }

\* sha256(text).hexdigest(): the remembered digest of a text digested before,
\* any digest of the family for a new text.
Sha256(text) == IF text \in DOMAIN oracle THEN {oracle[text]} ELSE Digests

(***************************************************************************)
(* class Block                                                             *)
(***************************************************************************)
\* hash_block without its last update() call: the nonce is left out of the text.
hash_input_no_nonce(h, t, d, p, n) == Str(h) \o IsoFormat(t) \o d \o p

\* hash_block joining the five texts with "|" between them.
hash_input_delimited(h, t, d, p, n) ==
    Str(h) \o <<"|">> \o IsoFormat(t) \o <<"|">> \o d \o <<"|">> \o p \o <<"|">> \o Str(n)

\* The text hash_block feeds the digest: five update() calls, no delimiters.
\* data and previous_hash are texts already (str() of a str is itself).
hash_input(h, t, d, p, n) == Str(h) \o IsoFormat(t) \o d \o p \o Str(n)

\* Block.hash_block(): what the digest is fed and a hex digest it may return,
\* as <<text, hexdigest>>.
hash_block(h, t, d, p, n) ==
    LET text == hash_input(h, t, d, p, n)
    IN  { <<text, dg>> : dg \in Sha256(text) }

\* Block.__init__ calling hash_block before self.nonce is assigned: the hash is
\* that of the fields with the nonce still at its initial 0.
Block_stale(h, t, d, p, n) ==
    { [self |-> [height |-> h, timestamp |-> t, data |-> d, previous_hash |-> p,
                 nonce |-> n, hash |-> x[2]],
       sha |-> x] : x \in hash_block(h, t, d, p, 0) }

\* Block.__init__: the constructions Block(h, t, d, p, n) can yield: the Block
\* (self), its hash fixed from its own fields, and the digest computation made.
Block(h, t, d, p, n) ==
    { [self |-> [height |-> h, timestamp |-> t, data |-> d, previous_hash |-> p,
                 nonce |-> n, hash |-> x[2]],
       sha |-> x] : x \in hash_block(h, t, d, p, n) }

\* The oracle after the digest computation x = <<text, hexdigest>>.
Observed(x) == (x[1] :> x[2]) @@ oracle

(***************************************************************************)
(* create_genesis_block                                                    *)
(***************************************************************************)
GenesisData == <<"L", "e", "t", " ", "t", "h", "e", "r", "e", " ", "b", "e", " ", "c", "o", "i", "n", ".">>

\* create_genesis_block with '' for the previous hash.
create_genesis_block_empty == UNION { Block(0, t, GenesisData, <<>>, 0) : t \in Now }

\* Block(0, datetime.datetime.now(), 'Let there be coin.', '0', nonce=0)
create_genesis_block == UNION { Block(0, t, GenesisData, <<"0">>, 0) : t \in Now }

(***************************************************************************)
(* mine_next_block                                                         *)
(***************************************************************************)
DataPrefix == <<"T", "h", "i", "s", " ", "i", "s", " ", "w", "h", "e", "r", "e", " ", "t", "h", "e", " ", "b", "l", "o", "c", "k", " ", "t", "r", "a", "n", "s", "a", "c", "t", "i", "o", "n", "s", " ", "w", "o", "u", "l", "d", " ", "g", "o", ".", " ", " ", "H", "e", "i", "g", "h", "t", ":", " ">>

\* 'This is where the block transactions would go.  Height: %s.' % height
BlockData(h) == DataPrefix \o Str(h) \o <<".">>

\* mine_next_block with `rounds = 1` on line 88.
mine_next_block_from_one(last_block) ==
    LET h == last_block.height + 1
    IN  UNION { { [last_block |-> last_block, height |-> h, timestamp |-> t,
                   data |-> BlockData(h), rounds |-> 1, block |-> c.self,
                   sha |-> c.sha] :
                    c \in Block(h, t, BlockData(h), last_block.hash, 1) } :
                t \in NowAfter(last_block.timestamp) }

\* Lines 84-89: the call's locals up to and including the first candidate, with
\* the digest computation made for it.
mine_next_block(last_block) ==
    LET h == last_block.height + 1
    IN  UNION { { [last_block |-> last_block, height |-> h, timestamp |-> t,
                   data |-> BlockData(h), rounds |-> 0, block |-> c.self,
                   sha |-> c.sha] :
                    c \in Block(h, t, BlockData(h), last_block.hash, 0) } :
                t \in NowAfter(last_block.timestamp) }

\* The loop body reading the clock again: timestamp = datetime.datetime.now()
\* inside the while statement.
NextRound_now(f) ==
    UNION { { [f EXCEPT !.rounds = f.rounds + 1, !.timestamp = t, !.block = c.self,
                        !.sha = c.sha] :
                c \in Block(f.height, t, f.data, f.last_block.hash, f.rounds + 1) } :
            t \in NowAfter(f.timestamp) }

\* Lines 98-99: rounds += 1; block = Block(height, timestamp, data, last_block.hash, nonce=rounds)
NextRound(f) ==
    { [f EXCEPT !.rounds = f.rounds + 1, !.block = c.self, !.sha = c.sha] :
        c \in Block(f.height, f.timestamp, f.data, f.last_block.hash, f.rounds + 1) }

\* The while test written on the digits: every one of the first `difficulty`
\* characters the hash has is "0" (as in int(block.hash[:difficulty], 16) == 0).
AcceptedDigits(b, d) ==
    \A k \in 1..(IF d < Len(b.hash) THEN d ELSE Len(b.hash)) : b.hash[k] = "0"

\* The while test with one zero too few: '0' * (difficulty - 1).
AcceptedOneFewer(b, d) == StartsWith(b.hash, Zeros(d - 1))

\* The while test: block.hash.startswith('0' * difficulty)
Accepted(b, d) == StartsWith(b.hash, Zeros(d))

(***************************************************************************)
(* demo                                                                    *)
(***************************************************************************)
Heights == -1..MaxHeight
\* --difficulty: unset, negative, zero, small, and one more than the digest is long.
Difficulties == {None} \cup { Some(d) : d \in -1..MaxDifficulty } \cup { Some(DigestLen + 1) }

\* The program is either run as a script (cli calls demo once, on --height and
\* --difficulty) or imported and Block(...) called directly.
Init ==
    /\ \/ pc = "start" /\ height \in Heights /\ difficulty \in Difficulties
       \/ pc = "lab" /\ height = 0 /\ difficulty = None
    /\ chain = <<>>
    /\ i = 0
    /\ mine = <<>>
    /\ oracle = <<>>
    /\ calls = 0
    /\ genesis_calls = 0
    /\ candidates = <<>>
    /\ built = <<>>

\* chain[0] in place of chain[-1].
TipFirst(c) == c[1]

\* chain[-1]
Tip(c) == c[Len(c)]

\* range(height) in place of range(height - 1).
IterationsOffByOne(h) == h

\* range(height - 1): the number of iterations of the for loop (none when <= 0).
Iterations(h) == h - 1

\* Lines 113-116: genesis_block = create_genesis_block(); chain = [genesis_block]
demo_genesis ==
    /\ pc = "start"
    /\ \E c \in create_genesis_block :
         /\ chain' = <<c.self>>
         /\ oracle' = Observed(c.sha)
    /\ genesis_calls' = genesis_calls + 1
    /\ pc' = "for"
    /\ UNCHANGED <<height, difficulty, i, mine, calls, candidates, built>>

\* Lines 117-118, 84-89: the next iteration calls mine_next_block(chain[-1]).
demo_for ==
    /\ pc = "for"
    /\ i < Iterations(height)
    /\ \E f \in mine_next_block(Tip(chain)) :
         /\ mine' = <<f>>
         /\ oracle' = Observed(f.sha)
         /\ candidates' = <<f.block>>
    /\ calls' = calls + 1
    /\ pc' = "if"
    /\ UNCHANGED <<height, difficulty, chain, i, genesis_calls, built>>

\* Lines 117, 124-130: range(height - 1) is exhausted.
demo_exit ==
    /\ pc = "for"
    /\ ~(i < Iterations(height))
    /\ pc' = "done"
    /\ UNCHANGED <<height, difficulty, chain, i, mine, oracle, calls, genesis_calls,
                   candidates, built>>

\* chain.insert(0, new_block) in place of chain.append(new_block).
Return_insert ==
    /\ chain' = <<mine[1].block>> \o chain
    /\ i' = i + 1
    /\ mine' = <<>>
    /\ pc' = "for"
    /\ UNCHANGED <<height, difficulty, oracle, calls, genesis_calls, candidates, built>>

\* The call returns `block` and demo appends it (lines 92 or 103, then 119).
Return ==
    /\ chain' = Append(chain, mine[1].block)
    /\ i' = i + 1
    /\ mine' = <<>>
    /\ pc' = "for"
    /\ UNCHANGED <<height, difficulty, oracle, calls, genesis_calls, candidates, built>>

\* Lines 91-92: `if not difficulty: return block`.
mine_no_difficulty ==
    /\ pc = "if"
    /\ Not(difficulty)
    /\ Return

\* The search written as a do-while: the first candidate is replaced by the next
\* without its hash being tested.
mine_difficulty_untested ==
    /\ pc = "if"
    /\ ~Not(difficulty)
    /\ \E f \in NextRound(mine[1]) :
         /\ mine' = <<f>>
         /\ oracle' = Observed(f.sha)
         /\ candidates' = Append(candidates, f.block)
    /\ pc' = "while"
    /\ UNCHANGED <<height, difficulty, chain, i, calls, genesis_calls, built>>

\* Line 91 falls through to the while statement of line 97.
mine_difficulty ==
    /\ pc = "if"
    /\ ~Not(difficulty)
    /\ pc' = "while"
    /\ UNCHANGED <<height, difficulty, chain, i, mine, oracle, calls, genesis_calls,
                   candidates, built>>

\* Lines 97-99: the hash fails the prefix test and the next nonce is tried.
\* '0' * None raises TypeError. The search is followed while fewer than
\* MaxDigested digests have been computed in the run.
mine_round ==
    /\ pc = "while"
    /\ IF difficulty = None
       THEN /\ pc' = "error"
            /\ UNCHANGED <<mine, oracle, candidates>>
       ELSE /\ ~Accepted(mine[1].block, difficulty[1])
            /\ Cardinality(DOMAIN oracle) < MaxDigested
            /\ \E f \in NextRound(mine[1]) :
                 /\ mine' = <<f>>
                 /\ oracle' = Observed(f.sha)
                 /\ candidates' = Append(candidates, f.block)
            /\ pc' = "while"
    /\ UNCHANGED <<height, difficulty, chain, i, calls, genesis_calls, built>>

\* Lines 97, 103: the hash passes the prefix test; the block is returned.
mine_return ==
    /\ pc = "while"
    /\ difficulty # None
    /\ Accepted(mine[1].block, difficulty[1])
    /\ Return

(***************************************************************************)
(* Block(...) called directly, twice, on fields of the caller's choosing.  *)
(***************************************************************************)
\* The data and previous_hash texts explored: moving the "b" from the end of the
\* data to the start of the previous_hash leaves the concatenation as it was.
Datas == { <<"a">>, <<"a", "b">> }
PreviousHashes == { <<"0">>, <<"b", "0">> }

construct ==
    /\ pc = "lab"
    /\ Len(built) < 2
    /\ \E h \in 0..MaxField, t \in Now, d \in Datas, p \in PreviousHashes, n \in 0..MaxField :
         \E c \in Block(h, t, d, p, n) :
           /\ built' = Append(built, c.self)
           /\ oracle' = Observed(c.sha)
    /\ UNCHANGED <<pc, height, difficulty, chain, i, mine, calls, genesis_calls,
                   candidates>>

Next ==
    \/ demo_genesis
    \/ demo_for
    \/ demo_exit
    \/ mine_no_difficulty
    \/ mine_difficulty
    \/ mine_round
    \/ mine_return
    \/ construct

Spec == Init /\ [][Next]_vars

(***************************************************************************)
(* Vocabulary of the properties.                                           *)
(***************************************************************************)
TypeOK ==
    /\ pc \in {"start", "for", "if", "while", "done", "error", "lab"}
    /\ Len(mine) <= 1

\* The number of "0" characters the text s has from position k on, before the
\* first other character.
RECURSIVE ZerosFrom(_, _)
ZerosFrom(s, k) ==
    IF k > Len(s) THEN 0
    ELSE IF s[k] # "0" THEN 0
    ELSE 1 + ZerosFrom(s, k + 1)

\* The number of "0" characters a text begins with.
LeadingZeros(s) == ZerosFrom(s, 1)

\* The difficulty as a number of required zeros; 0 when unset.
Required == IF difficulty = None THEN 0 ELSE difficulty[1]

\* Every Block in existence: in the chain, under construction by the running
\* call, constructed by the latest call, or constructed directly.
Blocks ==
    { chain[k] : k \in 1..Len(chain) } \cup { mine[k].block : k \in 1..Len(mine) }
    \cup { candidates[k] : k \in 1..Len(candidates) } \cup { built[k] : k \in 1..Len(built) }

\* The text of a Block's five fields, in order, as hash_block encodes them.
InputOf(b) == hash_input(b.height, b.timestamp, b.data, b.previous_hash, b.nonce)

Fields == {"height", "timestamp", "data", "previous_hash", "nonce"}

\* The five fields in which two Blocks differ.
Differing(a, b) == { f \in Fields : a[f] # b[f] }

\* No two texts digested so far have the same digest.
CollisionFree == \A s, t \in DOMAIN oracle : s # t => oracle[s] # oracle[t]

\* The chain exists: demo is past line 114.
ChainBuilt == pc \notin {"start", "lab"}

(***************************************************************************)
(* Properties.                                                             *)
(***************************************************************************)
\* C1. Chain linkage: once the genesis block is in the chain and after every
\* append, each block past the first carries the hash of the block before it
\* as previous_hash, and its height is one more than that block's and equal
\* to its index in the chain.
ChainLinkage ==
    \A k \in 2..Len(chain) :
        /\ chain[k].previous_hash = chain[k - 1].hash
        /\ chain[k].height = chain[k - 1].height + 1
        /\ chain[k].height = k - 1

\* A finished chain of three blocks with three different hashes.
ChainLinkageWitness ==
    /\ pc = "done"
    /\ Len(chain) = 3
    /\ chain[3].previous_hash = chain[2].hash
    /\ Cardinality({ chain[k].hash : k \in 1..3 }) = 3

\* C2. Difficulty satisfaction: with difficulty d > 0 every mined block in the
\* chain has a hash beginning with at least d "0" characters, and no candidate
\* whose hash fails that test is in the chain.
DifficultySatisfaction ==
    Required > 0 =>
        /\ \A k \in 2..Len(chain) : LeadingZeros(chain[k].hash) >= Required
        /\ \A n \in 1..Len(candidates) :
               LeadingZeros(candidates[n].hash) < Required =>
                   \A k \in 1..Len(chain) : chain[k] # candidates[n]

\* Difficulty 1: a candidate was rejected, and the block appended after it has
\* a hash with more than one leading zero.
DifficultySatisfactionWitness ==
    /\ Required = 1
    /\ Len(chain) >= 2
    /\ mine = <<>>
    /\ Len(candidates) >= 2
    /\ LeadingZeros(candidates[1].hash) = 0
    /\ LeadingZeros(chain[Len(chain)].hash) > 1

\* C3. Minimal nonce: with difficulty d > 0 the nonce of a mined block is the
\* smallest n >= 0 for which the digest of (height of the block before + 1,
\* timestamp, data, hash of the block before, n) begins with d "0" characters:
\* its own hash passes and every smaller nonce was digested and fails.
MinimalNonce ==
    Required > 0 =>
        \A k \in 2..Len(chain) :
            LET b == chain[k]
                Text(n) == hash_input(chain[k - 1].height + 1, b.timestamp, b.data,
                                      chain[k - 1].hash, n)
                own == Text(b.nonce)
            IN  /\ own \in DOMAIN oracle
                /\ oracle[own] = b.hash
                /\ LeadingZeros(b.hash) >= Required
                /\ \A n \in 0..(b.nonce - 1) :
                       /\ Text(n) \in DOMAIN oracle
                       /\ LeadingZeros(oracle[Text(n)]) < Required

\* A block was mined with nonce 2: nonces 0 and 1 failed.
MinimalNonceWitness ==
    /\ Required > 0
    /\ Len(chain) >= 2
    /\ chain[2].nonce = 2

\* C4. No-difficulty shortcut: with difficulty None or 0 the call never reaches
\* the while statement, constructs exactly one candidate and returns it, and
\* that block is (height of the tip + 1, timestamp, data, hash of the tip, 0);
\* so every mined block of the chain has nonce 0.
NoDifficultyShortcut ==
    (ChainBuilt /\ difficulty \in {None, Some(0)}) =>
        /\ pc \notin {"while", "error"}
        /\ calls > 0 => Len(candidates) = 1
        /\ (calls > 0 /\ mine = <<>>) => candidates = <<chain[Len(chain)]>>
        /\ \A k \in 2..Len(chain) :
               /\ chain[k].nonce = 0
               /\ chain[k].height = chain[k - 1].height + 1
               /\ chain[k].previous_hash = chain[k - 1].hash
               /\ chain[k].data = BlockData(chain[k - 1].height + 1)

\* Difficulty 0: a chain of three blocks is finished, the last one the only
\* candidate of its call.
NoDifficultyShortcutWitness ==
    /\ difficulty = Some(0)
    /\ pc = "done"
    /\ Len(chain) = 3
    /\ candidates = <<chain[3]>>

\* C5. Genesis invariants: from line 114 on the chain is non-empty and starts
\* with the genesis block (height 0, previous_hash "0", nonce 0);
\* create_genesis_block has been called exactly once; no later block has
\* height 0 or previous_hash "0".
GenesisInvariants ==
    /\ pc = "start" => genesis_calls = 0
    /\ ChainBuilt =>
        /\ Len(chain) >= 1
        /\ chain[1].height = 0
        /\ chain[1].previous_hash = <<"0">>
        /\ chain[1].nonce = 0
        /\ genesis_calls = 1
        /\ \A k \in 2..Len(chain) :
               /\ chain[k].height # 0
               /\ chain[k].previous_hash # <<"0">>

\* Two blocks were mined on top of the genesis block.
GenesisInvariantsWitness ==
    /\ ChainBuilt
    /\ Len(chain) = 3
    /\ chain[1].data = GenesisData
    /\ genesis_calls = 1

\* C6. Chain assembly count: for a height argument >= 1, demo creates the
\* genesis block once, calls mine_next_block at most height - 1 times, each
\* call on the last block of the chain and each result appended, and when it
\* is done it has made exactly height - 1 calls and the chain has height blocks.
ChainAssemblyCount ==
    (ChainBuilt /\ height >= 1) =>
        /\ genesis_calls = 1
        /\ calls <= height - 1
        /\ calls = i + Len(mine)
        /\ Len(chain) = 1 + i
        /\ mine # <<>> => mine[1].last_block = chain[Len(chain)]
        /\ pc = "done" => (calls = height - 1 /\ Len(chain) = height)

\* demo(height=3) is done after two calls.
ChainAssemblyCountWitness ==
    /\ pc = "done"
    /\ height = 3
    /\ calls = 2
    /\ Len(chain) = 3

\* C7. Hash/field consistency and determinism: every Block's hash is the
\* digest of the text of its own five fields, in order, whatever has been
\* digested since; so two Blocks with the same five fields have the same hash.
HashConsistency ==
    /\ \A b \in Blocks :
           LET text == InputOf(b)
           IN  /\ text \in DOMAIN oracle
               /\ oracle[text] = b.hash
    /\ \A a, b \in Blocks : Differing(a, b) = {} => a.hash = b.hash

\* Block(...) was called twice on the same five fields.
HashConsistencyWitness ==
    /\ Len(built) = 2
    /\ Differing(built[1], built[2]) = {}
    /\ built[1].nonce = 1
    /\ built[1].hash = built[2].hash

\* C9. No error outcome: no run of demo raises; every block mine_next_block
\* returned has the height of the block before it plus one and that block's
\* hash as previous_hash; a run that is done has the full chain.
NoErrorOutcome ==
    /\ pc # "error"
    /\ \A k \in 2..Len(chain) :
           /\ chain[k].height = chain[k - 1].height + 1
           /\ chain[k].previous_hash = chain[k - 1].hash
    /\ (pc = "done" /\ height >= 1) => Len(chain) = height

\* Difficulty None: the call returned at line 92 and the run is done.
NoErrorOutcomeWitness ==
    /\ difficulty = None
    /\ pc = "done"
    /\ height = 2
    /\ Len(chain) = 2

\* C10. Single-field sensitivity: as long as no two digested texts have the
\* same digest, two Blocks that differ in exactly one of height, timestamp,
\* data, previous_hash and nonce have different hashes.
SingleFieldSensitivity ==
    CollisionFree =>
        \A a, b \in Blocks : Cardinality(Differing(a, b)) = 1 => a.hash # b.hash

\* Two Blocks constructed directly that differ in the timestamp alone.
SingleFieldSensitivityWitness ==
    /\ CollisionFree
    /\ Len(built) = 2
    /\ Differing(built[1], built[2]) = {"timestamp"}
    /\ built[1].hash # built[2].hash

\* C11. Search frame: the candidates one call of mine_next_block constructs all
\* have the height, timestamp, data and previous_hash of the first, taken from
\* the tip and the clock before the first candidate; their nonces are 0, 1,
\* 2, ... in the order of construction, none skipped and none repeated.
SearchFrame ==
    /\ \A n \in 1..Len(candidates) :
           /\ candidates[n].nonce = n - 1
           /\ candidates[n].height = candidates[1].height
           /\ candidates[n].timestamp = candidates[1].timestamp
           /\ candidates[n].data = candidates[1].data
           /\ candidates[n].previous_hash = candidates[1].previous_hash
    /\ mine # <<>> =>
           /\ Len(candidates) = mine[1].rounds + 1
           /\ candidates[Len(candidates)] = mine[1].block
           /\ candidates[1].height = chain[Len(chain)].height + 1
           /\ candidates[1].previous_hash = chain[Len(chain)].hash
           /\ candidates[1].timestamp = mine[1].timestamp

\* A search that has constructed three candidates, its timestamp read while the
\* clock could still move on.
SearchFrameWitness ==
    /\ pc = "while"
    /\ Len(candidates) = 3
    /\ candidates[3].nonce = 2
    /\ candidates[1].timestamp.microsecond = 0

\* C12. Append-only, in-order growth: a step that changes the chain adds one
\* block at its end and leaves every earlier block as it was; the block added
\* has a greater height than the one before it; and a call of
\* mine_next_block for a height starts on the block of the height below it,
\* which is then the last of the chain.
AppendOnly ==
    [][ /\ chain' # chain =>
            /\ Len(chain') = Len(chain) + 1
            /\ SubSeq(chain', 1, Len(chain)) = chain
            /\ Len(chain) >= 1 =>
                   chain'[Len(chain')].height > chain[Len(chain)].height
        /\ (mine = <<>> /\ mine' # <<>>) =>
            /\ chain' = chain
            /\ mine'[1].last_block = chain[Len(chain)]
            /\ mine'[1].height = chain[Len(chain)].height + 1
            /\ mine'[1].height = Len(chain)
      ]_vars

\* The third block has been appended, in height order.
AppendOnlyWitness ==
    /\ Len(chain) = 3
    /\ mine = <<>>
    /\ chain[1].height < chain[2].height
    /\ chain[2].height < chain[3].height

\* C13. A difficulty greater than the length of the hex digest: no hash passes
\* the prefix test, not even the one that is "0" throughout, so a call of
\* mine_next_block never returns; the chain stays the genesis block alone
\* and demo is never done when it has a block to mine.
UnreachableDifficulty ==
    (ChainBuilt /\ Required > DigestLen) =>
        /\ \A b \in Blocks : Len(b.hash) = DigestLen
        /\ Len(chain) = 1
        /\ i = 0
        /\ calls <= 1
        /\ calls = 1 => (pc \in {"if", "while"} /\ mine # <<>>)
        /\ pc = "done" => height <= 1
        /\ \A n \in 1..Len(candidates) : candidates[n].nonce = n - 1

\* Difficulty 65: the search is at its third candidate, one of them "0"
\* throughout, and nothing has been appended.
UnreachableDifficultyWitness ==
    /\ Required = DigestLen + 1
    /\ pc = "while"
    /\ Len(candidates) = 3
    /\ \E n \in 1..3 : LeadingZeros(candidates[n].hash) = DigestLen
    /\ Len(chain) = 1

\* C14. A negative difficulty: no error is raised and no second candidate is
\* constructed; the required prefix is empty, the first candidate passes, and
\* every mined block is (height of the tip + 1, timestamp, data, hash of the
\* tip, 0), as when the difficulty is unset.
NegativeDifficulty ==
    (ChainBuilt /\ Required < 0) =>
        /\ pc # "error"
        /\ Len(candidates) <= 1
        /\ mine # <<>> => mine[1].rounds = 0
        /\ (calls > 0 /\ mine = <<>>) => candidates = <<chain[Len(chain)]>>
        /\ \A k \in 2..Len(chain) :
               /\ chain[k].nonce = 0
               /\ chain[k].height = chain[k - 1].height + 1
               /\ chain[k].previous_hash = chain[k - 1].hash
               /\ chain[k].data = BlockData(chain[k - 1].height + 1)

\* Difficulty -1: a chain of three blocks is done, whose mined blocks have
\* hashes without a leading zero.
NegativeDifficultyWitness ==
    /\ difficulty = Some(-1)
    /\ pc = "done"
    /\ Len(chain) = 3
    /\ LeadingZeros(chain[2].hash) = 0
    /\ LeadingZeros(chain[3].hash) = 0

\* The greater of two integers.
Max(a, b) == IF a >= b THEN a ELSE b

\* C15. A height argument <= 1: demo never calls mine_next_block and the chain
\* is the genesis block alone; a finished chain has max(1, height) blocks.
SmallHeight ==
    /\ (ChainBuilt /\ height <= 1) =>
        /\ calls = 0
        /\ mine = <<>>
        /\ Len(chain) = 1
        /\ pc \in {"for", "done"}
    /\ pc = "done" => Len(chain) = Max(1, height)

\* demo(height=-1) is done with the genesis block alone.
SmallHeightWitness ==
    /\ height = -1
    /\ pc = "done"
    /\ Len(chain) = 1
    /\ calls = 0

\* The five fields of a Block as texts, one after the other with nothing between.
Concatenation(b) ==
    Str(b.height) \o IsoFormat(b.timestamp) \o b.data \o b.previous_hash \o Str(b.nonce)

\* C16. The hash depends on the concatenated text alone: two Blocks whose
\* fields concatenate to the same text have the same hash, also when their
\* fields differ.
ConcatenationDecidesHash ==
    LET text == [b \in Blocks |-> Concatenation(b)]
    IN  \A a, b \in Blocks : (a.hash # b.hash) => (text[a] # text[b])

\* Two Blocks constructed directly, one with data "ab" and previous_hash "0",
\* the other with data "a" and previous_hash "b0", and the same hash.
ConcatenationDecidesHashWitness ==
    /\ Len(built) = 2
    /\ built[1].data = <<"a", "b">>
    /\ built[1].previous_hash = <<"0">>
    /\ built[2].data = <<"a">>
    /\ built[2].previous_hash = <<"b", "0">>
    /\ Differing(built[1], built[2]) = {"data", "previous_hash"}
    /\ built[1].hash = built[2].hash
====
